---- MODULE Spec2Model ----
(***************************************************************************)
(* Model of dfx-canister-counter (src/src/main.rs).                        *)
(*                                                                         *)
(* The program reads <path>/dfx.json, parses it into a serde_json Value,   *)
(* takes the `canisters` object and tallies the `type` string of every     *)
(* entry.  Two code paths do this: the library pipeline read_dfx_json +    *)
(* analyze_canisters, and main, which repeats the same steps inline and    *)
(* prints the report.  A behaviour of the model evaluates the library      *)
(* pipeline on a file and then runs main on the same file.                 *)
(*                                                                         *)
(* Counts are u32 and the total is usize in the code; the manifests of the *)
(* model have at most MaxEntries entries, far below either width.          *)
(***************************************************************************)
EXTENDS Integers, Sequences, FiniteSets, TLC

(***************************************************************************)
(* Bounds.                                                                 *)
(***************************************************************************)
MaxEntries == 3

\* Canister names, in ascending key order.
NameSeq == <<"bar", "foo", "internet-identity", "web3disk", "web3disk_service_backend">>

Names == {NameSeq[i] : i \in (Len(NameSeq) - MaxEntries + 1)..Len(NameSeq)}

TypeStrings == {"custom", "motoko", "pull", "unknown"}

(***************************************************************************)
(* serde_json::Value as a tagged variant.                                  *)
(***************************************************************************)
EmptyMap == [k \in {} |-> k]

Null == [kind |-> "null"]

Bool == [kind |-> "bool"]

Number == [kind |-> "number"]

Array == [kind |-> "array"]

Str(s) == [kind |-> "string", s |-> s]

Object(m) == [kind |-> "object", fields |-> m]

NonObjects == {Null, Bool, Number, Array, Str("motoko")}

\* Values an entry's `type` field takes in the model.
TypeValues == {Null, Bool, Number, Array, Object(EmptyMap)} \cup {Str(s) : s \in TypeStrings}

\* Definitions of a canister entry: objects with or without `type`, and
\* values that are not objects at all.
Definitions ==
    {Null, Array, Str("motoko")}
        \cup {Object(EmptyMap)}
        \cup {Object([type |-> tv]) : tv \in TypeValues}

\* The mappings a `canisters` object holds: unique names, any definitions.
CanisterMaps == UNION {[S -> Definitions] : S \in SUBSET Names}

\* Parsed documents.
Documents ==
    NonObjects
        \cup {Object(EmptyMap), Object([version |-> Number])}
        \cup {Object([canisters |-> v]) : v \in NonObjects}
        \cup {Object([canisters |-> Object(m)]) : m \in CanisterMaps}

\* What a malformed text would stand for had it been closed properly.
TruncatedDocuments ==
    {Null, Object([canisters |-> Object(EmptyMap)]),
     Object([canisters |-> Object([foo |-> Object([type |-> Str("motoko")])])])}

\* The file at Path::new(path).join("dfx.json").
Files ==
    {[readable |-> FALSE, wellformed |-> FALSE, doc |-> Null]}
        \cup {[readable |-> TRUE, wellformed |-> FALSE, doc |-> d] : d \in TruncatedDocuments}
        \cup {[readable |-> TRUE, wellformed |-> TRUE, doc |-> d] : d \in Documents}

(***************************************************************************)
(* Option and Result.                                                      *)
(***************************************************************************)
Some(v) == [some |-> TRUE, val |-> v]

None == [some |-> FALSE]

Ok(v) == [ok |-> TRUE, val |-> v]

Err(e) == [ok |-> FALSE, err |-> e]

FileReadError == "Could not read dfx.json"

ParseError == "Failed to parse dfx.json"

MissingFieldError == "No 'canisters' field found in dfx.json"

NoError == ""

\* Option::context
Context(opt, msg) == IF opt.some THEN Ok(opt.val) ELSE Err(msg)

\* Option::unwrap_or
UnwrapOr(opt, default) == IF opt.some THEN opt.val ELSE default

(***************************************************************************)
(* serde_json accessors.                                                   *)
(***************************************************************************)
\* Value's Index<&str>: the member of an object, Null for anything else.
Index(v, key) ==
    IF v.kind = "object" /\ key \in DOMAIN v.fields THEN v.fields[key] ELSE Null

\* Faulty variant: a missing member counts as an empty object.
AsObjectOrEmpty(v) ==
    IF v.kind = "object" THEN Some(v.fields)
    ELSE IF v.kind = "null" THEN Some(EmptyMap)
    ELSE None

AsObject(v) == IF v.kind = "object" THEN Some(v.fields) ELSE None

AsStr(v) == IF v.kind = "string" THEN Some(v.s) ELSE None

\* fs::read_to_string(..).with_context(..)
ReadToString(f) == IF f.readable THEN Ok(f) ELSE Err(FileReadError)

\* Faulty variant: a parser that returns what it has read of a malformed text.
FromStrLenient(content) == Ok(content.doc)

\* serde_json::from_str(..).context(..)
FromStr(content) == IF content.wellformed THEN Ok(content.doc) ELSE Err(ParseError)

(***************************************************************************)
(* The pieces of analyze_canisters and of main's inline copy.              *)
(***************************************************************************)
\* Faulty variant: an empty `canisters` object is rejected like a missing one.
ExtractNonEmptyCanisters(json) ==
    LET m == AsObject(Index(json, "canisters"))
    IN  IF m.some /\ DOMAIN m.val = {} THEN Err(MissingFieldError) ELSE Context(m, MissingFieldError)

\* json["canisters"].as_object().context(..)
ExtractCanisters(json) == Context(AsObject(Index(json, "canisters")), MissingFieldError)

FallbackLabel == "unknown"

\* Faulty variant: unwrap_or_default, the empty string as fallback.
CanisterTypeOrEmpty(canister) == UnwrapOr(AsStr(Index(canister, "type")), "")

\* Faulty variant: the fallback names the JSON kind of the `type` value.
CanisterTypeOrKind(canister) ==
    UnwrapOr(AsStr(Index(canister, "type")), Index(canister, "type").kind)

\* canister["type"].as_str().unwrap_or("unknown")
CanisterType(canister) == UnwrapOr(AsStr(Index(canister, "type")), FallbackLabel)

\* HashMap::entry(key).or_insert(0)
OrInsertZero(tc, key) ==
    IF key \in DOMAIN tc THEN tc ELSE [k \in DOMAIN tc \cup {key} |-> IF k = key THEN 0 ELSE tc[k]]

\* Faulty variant: or_insert(1), a new bucket starts at one before the increment.
BumpFromOne(tc, key) ==
    IF key \in DOMAIN tc THEN [tc EXCEPT ![key] = @ + 1]
    ELSE [k \in DOMAIN tc \cup {key} |-> IF k = key THEN 2 ELSE tc[k]]

\* Faulty variant: insert(key, 1), the bucket is overwritten instead of incremented.
BumpOverwrite(tc, key) == [k \in DOMAIN tc \cup {key} |-> IF k = key THEN 1 ELSE tc[k]]

\* Faulty variant: a new bucket starts at the number of buckets seen before it.
BumpFromLen(tc, key) ==
    IF key \in DOMAIN tc THEN [tc EXCEPT ![key] = @ + 1]
    ELSE [k \in DOMAIN tc \cup {key} |-> IF k = key THEN Cardinality(DOMAIN tc) + 1 ELSE tc[k]]

\* *type_count.entry(canister_type.to_string()).or_insert(0) += 1
Bump(tc, key) == [OrInsertZero(tc, key) EXCEPT ![key] = @ + 1]

\* Iteration over a serde_json Map yields the entries in ascending key
\* order: the next entry of a for loop is the least key not yet visited.
KeyIndex(name) == CHOOSE i \in DOMAIN NameSeq : NameSeq[i] = name

NextEntry(remaining) == CHOOSE n \in remaining : \A m \in remaining : KeyIndex(n) <= KeyIndex(m)

\* The for loop of analyze_canisters as a function of the order in which
\* the map yields its entries: the tally after visiting the names of seq.
RECURSIVE TallyInOrder(_, _)
TallyInOrder(m, seq) ==
    IF seq = <<>> THEN EmptyMap
    ELSE Bump(TallyInOrder(m, SubSeq(seq, 1, Len(seq) - 1)), CanisterType(m[seq[Len(seq)]]))

\* canisters.len()
MapLen(canisters) == Cardinality(DOMAIN canisters)

(***************************************************************************)
(* Report lines written by println!.                                       *)
(***************************************************************************)
BlankLine == [kind |-> "blank"]

\* "Canister: {}, Type: {}"
CanisterLine(name, canister_type) == [kind |-> "canister", name |-> name, type |-> canister_type]

\* "Total number of canisters: {}"
TotalLine(total) == [kind |-> "total", total |-> total]

\* "Canister types summary:"
HeaderLine == [kind |-> "header"]

\* "  {}: {}"
BucketLine(type_name, count) == [kind |-> "bucket", type |-> type_name, count |-> count]

(***************************************************************************)
(* State.  file is the input.  The l- and a- variables are the locals of   *)
(* read_dfx_json and analyze_canisters; the remaining ones are main's      *)
(* locals, its standard output, its error report and its exit status.      *)
(* todo sets hold the entries a for loop has not visited yet.              *)
(***************************************************************************)
VARIABLES file, lpc, ljson, acanisters, atodo, atype_count, aresult,
          pc, content, json, canisters, todo, type_count, buckets_todo,
          stdout, stderr, exit_code

libvars == <<lpc, ljson, acanisters, atodo, atype_count, aresult>>

mainvars == <<pc, content, json, canisters, todo, type_count, buckets_todo,
              stdout, stderr, exit_code>>

vars == <<file, libvars, mainvars>>

Running == 0 - 1

ExitSuccess == 0

ExitFailure == 1

Init ==
    /\ file \in Files
    /\ lpc = "read"
    /\ ljson = Err(NoError)
    /\ acanisters = EmptyMap
    /\ atodo = {}
    /\ atype_count = EmptyMap
    /\ aresult = Err(NoError)
    /\ pc = "read"
    /\ content = None
    /\ json = None
    /\ canisters = None
    /\ todo = {}
    /\ type_count = EmptyMap
    /\ buckets_todo = {}
    /\ stdout = <<>>
    /\ stderr = NoError
    /\ exit_code = Running

(***************************************************************************)
(* The library pipeline.                                                   *)
(***************************************************************************)
\* read_dfx_json: read the file, then parse it; either step may fail.
ReadDfxJson ==
    /\ lpc = "read"
    /\ LET text == ReadToString(file)
       IN  ljson' = IF text.ok THEN FromStr(text.val) ELSE text
    /\ lpc' = IF ljson'.ok THEN "analyze" ELSE "failed"
    /\ UNCHANGED <<file, acanisters, atodo, atype_count, aresult, mainvars>>

\* analyze_canisters, lines 137-141: extract `canisters` or return the error.
AnalyzeExtract ==
    /\ lpc = "analyze"
    /\ LET r == ExtractCanisters(ljson.val)
       IN  IF r.ok
           THEN /\ acanisters' = r.val
                /\ atodo' = DOMAIN r.val
                /\ atype_count' = EmptyMap
                /\ lpc' = "loop"
                /\ UNCHANGED aresult
           ELSE /\ aresult' = r
                /\ lpc' = "returned"
                /\ UNCHANGED <<acanisters, atodo, atype_count>>
    /\ UNCHANGED <<file, ljson, mainvars>>

\* analyze_canisters, lines 143-146: one iteration of the for loop.
AnalyzeStep ==
    /\ lpc = "loop"
    /\ atodo # {}
    /\ LET name == NextEntry(atodo)
       IN  /\ atype_count' = Bump(atype_count, CanisterType(acanisters[name]))
           /\ atodo' = atodo \ {name}
    /\ UNCHANGED <<file, lpc, ljson, acanisters, aresult, mainvars>>

\* analyze_canisters, line 148.
AnalyzeReturn ==
    /\ lpc = "loop"
    /\ atodo = {}
    /\ aresult' = Ok([total |-> MapLen(acanisters), type_count |-> atype_count])
    /\ lpc' = "returned"
    /\ UNCHANGED <<file, ljson, acanisters, atodo, atype_count, mainvars>>

LibDone == lpc \in {"failed", "returned"}

(***************************************************************************)
(* main.                                                                   *)
(***************************************************************************)
\* The `?` operator on an Err: main returns it, the runtime reports it on
\* the error stream and the process exits with a failure status.
Abort(e) ==
    /\ stderr' = e
    /\ exit_code' = ExitFailure
    /\ pc' = "exited"

\* lines 45-47
MainRead ==
    /\ LibDone
    /\ pc = "read"
    /\ LET r == ReadToString(file)
       IN  IF r.ok
           THEN /\ content' = Some(r.val)
                /\ pc' = "parse"
                /\ UNCHANGED <<stderr, exit_code>>
           ELSE /\ Abort(r.err)
                /\ UNCHANGED content
    /\ UNCHANGED <<file, libvars, json, canisters, todo, type_count, buckets_todo, stdout>>

\* line 49
MainParse ==
    /\ pc = "parse"
    /\ LET r == FromStr(content.val)
       IN  IF r.ok
           THEN /\ json' = Some(r.val)
                /\ pc' = "extract"
                /\ UNCHANGED <<stderr, exit_code>>
           ELSE /\ Abort(r.err)
                /\ UNCHANGED json
    /\ UNCHANGED <<file, libvars, content, canisters, todo, type_count, buckets_todo, stdout>>

\* lines 51-55
MainExtract ==
    /\ pc = "extract"
    /\ LET r == ExtractCanisters(json.val)
       IN  IF r.ok
           THEN /\ canisters' = Some(r.val)
                /\ todo' = DOMAIN r.val
                /\ type_count' = EmptyMap
                /\ pc' = "loop"
                /\ UNCHANGED <<stderr, exit_code>>
           ELSE /\ Abort(r.err)
                /\ UNCHANGED <<canisters, todo, type_count>>
    /\ UNCHANGED <<file, libvars, content, json, buckets_todo, stdout>>

\* Faulty variant: the inline copy tallies only the entries with a string type.
MainStepSkippingFallback ==
    /\ pc = "loop"
    /\ todo # {}
    /\ LET name == NextEntry(todo)
           type_value == AsStr(Index(canisters.val[name], "type"))
       IN  /\ type_count' = IF type_value.some THEN Bump(type_count, type_value.val) ELSE type_count
           /\ stdout' = Append(stdout, CanisterLine(name, UnwrapOr(type_value, FallbackLabel)))
           /\ todo' = todo \ {name}
    /\ UNCHANGED <<file, libvars, pc, content, json, canisters, buckets_todo, stderr, exit_code>>

\* lines 57-61: one iteration of the for loop.
MainStep ==
    /\ pc = "loop"
    /\ todo # {}
    /\ LET name == NextEntry(todo)
           canister_type == CanisterType(canisters.val[name])
       IN  /\ type_count' = Bump(type_count, canister_type)
           /\ stdout' = Append(stdout, CanisterLine(name, canister_type))
           /\ todo' = todo \ {name}
    /\ UNCHANGED <<file, libvars, pc, content, json, canisters, buckets_todo, stderr, exit_code>>

\* Faulty variant: the total printed is type_count.len().
MainSummaryCountingTypes ==
    /\ pc = "loop"
    /\ todo = {}
    /\ stdout' = stdout \o <<BlankLine, TotalLine(MapLen(type_count)), BlankLine, HeaderLine>>
    /\ buckets_todo' = DOMAIN type_count
    /\ pc' = "types"
    /\ UNCHANGED <<file, libvars, content, json, canisters, todo, type_count, stderr, exit_code>>

\* lines 63-64: the total and the header, each after a blank line.
MainSummary ==
    /\ pc = "loop"
    /\ todo = {}
    /\ stdout' = stdout \o <<BlankLine, TotalLine(MapLen(canisters.val)), BlankLine, HeaderLine>>
    /\ buckets_todo' = DOMAIN type_count
    /\ pc' = "types"
    /\ UNCHANGED <<file, libvars, content, json, canisters, todo, type_count, stderr, exit_code>>

\* lines 65-67: one iteration over type_count, in the hash map's order.
MainBucket ==
    /\ pc = "types"
    /\ \E type_name \in buckets_todo :
          /\ stdout' = Append(stdout, BucketLine(type_name, type_count[type_name]))
          /\ buckets_todo' = buckets_todo \ {type_name}
    /\ UNCHANGED <<file, libvars, pc, content, json, canisters, todo, type_count, stderr, exit_code>>

\* line 69
MainOk ==
    /\ pc = "types"
    /\ buckets_todo = {}
    /\ exit_code' = ExitSuccess
    /\ pc' = "exited"
    /\ UNCHANGED <<file, libvars, content, json, canisters, todo, type_count, buckets_todo,
                   stdout, stderr>>

\* The library pipeline alone.
NextLibrary ==
    \/ ReadDfxJson
    \/ AnalyzeExtract
    \/ AnalyzeStep
    \/ AnalyzeReturn

SpecLibrary == Init /\ [][NextLibrary]_vars

\* The library pipeline, then main on the same file.
Next ==
    \/ ReadDfxJson
    \/ AnalyzeExtract
    \/ AnalyzeStep
    \/ AnalyzeReturn
    \/ MainRead
    \/ MainParse
    \/ MainExtract
    \/ MainStep
    \/ MainSummary
    \/ MainBucket
    \/ MainOk

Spec == Init /\ [][Next]_vars

(***************************************************************************)
(* Vocabulary of the properties.  These definitions read the input file    *)
(* and the report directly; they do not go through the accessors above.    *)
(***************************************************************************)
\* The document has a `canisters` member and it is an object.
HasCanistersObject(doc) ==
    /\ doc.kind = "object"
    /\ "canisters" \in DOMAIN doc.fields
    /\ doc.fields["canisters"].kind = "object"

\* The file is readable, well-formed and holds a `canisters` object.
WellFormedManifest == file.readable /\ file.wellformed /\ HasCanistersObject(file.doc)

\* The entries of the `canisters` mapping of a well-formed manifest.
Entries == file.doc.fields["canisters"].fields

\* The entry's `type` is present and is a string.
HasStringType(def) ==
    /\ def.kind = "object"
    /\ "type" \in DOMAIN def.fields
    /\ def.fields["type"].kind = "string"

\* The label an entry is to be counted under.
LabelOf(def) == IF HasStringType(def) THEN def.fields["type"].s ELSE "unknown"

\* The names among S whose entry carries label l.
Carrying(m, S, l) == {n \in S : LabelOf(m[n]) = l}

RECURSIVE SumOver(_, _)
SumOver(f, S) ==
    IF S = {} THEN 0
    ELSE LET k == CHOOSE x \in S : TRUE IN f[k] + SumOver(f, S \ {k})

\* Sum of all values of a tally.
SumValues(tc) == SumOver(tc, DOMAIN tc)

\* Entries analyze_canisters has visited so far.
Visited == DOMAIN acanisters \ atodo

AnalyzeSucceeded == lpc = "returned" /\ aresult.ok

AnalyzeFailed == lpc = "returned" /\ ~aresult.ok

\* The manifest of the documentation test of analyze_canisters.
DocTestManifest ==
    Object([canisters |-> Object(
        [n \in {"web3disk", "web3disk_service_backend", "internet-identity"} |->
            Object([type |-> Str(CASE n = "web3disk" -> "custom"
                                   [] n = "web3disk_service_backend" -> "motoko"
                                   [] OTHER -> "pull")])])])

(***************************************************************************)
(* C1: for every manifest whose `canisters` field is an object, the total  *)
(* analyze_canisters returns is the number of entries of the mapping and   *)
(* the tally values sum to it; after k iterations of the loop the tally    *)
(* values sum to k.                                                        *)
(***************************************************************************)
C1_TallySumsToTotal ==
    /\ lpc = "loop" => SumValues(atype_count) = Cardinality(Visited)
    /\ AnalyzeSucceeded =>
          /\ aresult.val.total = Cardinality(DOMAIN Entries)
          /\ SumValues(aresult.val.type_count) = aresult.val.total

C1_Witness ==
    /\ AnalyzeSucceeded
    /\ aresult.val.total = 3
    /\ Cardinality(DOMAIN aresult.val.type_count) = 2

(***************************************************************************)
(* C2: the tally maps every label to exactly the number of entries that    *)
(* carry it and has no bucket for a label no entry carries; literal and    *)
(* fallback "unknown" share a bucket; the documentation test's manifest    *)
(* yields total 3 and {custom: 1, motoko: 1, pull: 1}.                     *)
(***************************************************************************)
C2_TallyCountsLabels ==
    AnalyzeSucceeded =>
        LET tc == aresult.val.type_count
        IN  /\ \A l \in DOMAIN tc \cup TypeStrings :
                  LET n == Cardinality(Carrying(Entries, DOMAIN Entries, l))
                  IN  /\ l \in DOMAIN tc <=> n > 0
                      /\ l \in DOMAIN tc => tc[l] = n
            /\ file.doc = DocTestManifest =>
                  /\ aresult.val.total = 3
                  /\ tc = [l \in {"custom", "motoko", "pull"} |-> 1]

C2_Witness ==
    /\ AnalyzeSucceeded
    /\ file.doc = DocTestManifest

(***************************************************************************)
(* C3: every iteration of the loop adds one to the bucket of the entry's   *)
(* label and changes nothing else, without leaving the loop: the label is  *)
(* the `type` string when there is one and "unknown" when `type` is        *)
(* absent, null or not a string or the definition is not an object.        *)
(***************************************************************************)
C3_EveryEntryLabelled ==
    [][(lpc = "loop" /\ atodo' # atodo) =>
          /\ lpc' = "loop"
          /\ \E n \in atodo :
                LET l == LabelOf(acanisters[n])
                IN  /\ atodo' = atodo \ {n}
                    /\ DOMAIN atype_count' = DOMAIN atype_count \cup {l}
                    /\ atype_count'[l] = (IF l \in DOMAIN atype_count THEN atype_count[l] ELSE 0) + 1
                    /\ \A o \in DOMAIN atype_count \ {l} : atype_count'[o] = atype_count[o]]_vars

C3_Witness ==
    /\ AnalyzeSucceeded
    /\ \E n \in DOMAIN Entries : Entries[n].kind = "string"
    /\ \E n \in DOMAIN Entries : Entries[n] = Object([type |-> Null])
    /\ \E n \in DOMAIN Entries : Entries[n] = Object([type |-> Str("unknown")])
    /\ aresult.val.type_count = [l \in {"unknown"} |-> 3]

(***************************************************************************)
(* C4: analyze_canisters fails exactly when `canisters` is absent, null or *)
(* not an object; the failure is the missing-field error and carries no    *)
(* total and no tally; the loop itself never fails.                        *)
(***************************************************************************)
C4_FailsIffNoCanistersObject ==
    /\ lpc \in {"loop", "returned"} => ljson.ok /\ ljson.val = file.doc
    /\ lpc = "loop" => HasCanistersObject(file.doc)
    /\ lpc = "returned" =>
          /\ aresult.ok <=> HasCanistersObject(file.doc)
          /\ ~aresult.ok => aresult = Err(MissingFieldError)

C4_Witness ==
    /\ AnalyzeFailed
    /\ file.doc.kind = "object"
    /\ "canisters" \in DOMAIN file.doc.fields
    /\ file.doc.fields["canisters"].kind = "array"

(***************************************************************************)
(* C5: an empty `canisters` object is analysed successfully, with total 0  *)
(* and a tally without any bucket.                                         *)
(***************************************************************************)
C5_EmptyCanisters ==
    (lpc = "returned" /\ file.doc = Object([canisters |-> Object(EmptyMap)])) =>
        /\ aresult.ok
        /\ aresult.val.total = 0
        /\ DOMAIN aresult.val.type_count = {}

C5_Witness ==
    /\ lpc = "returned"
    /\ file.doc = Object([canisters |-> Object(EmptyMap)])
    /\ aresult.ok

(***************************************************************************)
(* C6: the number of buckets is at most the total, and equals it only when *)
(* the entries carry pairwise distinct labels.                             *)
(***************************************************************************)
C6_BucketsAtMostTotal ==
    AnalyzeSucceeded =>
        LET buckets == Cardinality(DOMAIN aresult.val.type_count)
        IN  /\ buckets <= aresult.val.total
            /\ buckets = aresult.val.total =>
                  \A a, b \in DOMAIN Entries :
                      a # b => LabelOf(Entries[a]) # LabelOf(Entries[b])

C6_Witness ==
    /\ AnalyzeSucceeded
    /\ aresult.val.total = 3
    /\ Cardinality(DOMAIN aresult.val.type_count) = 3
    /\ "unknown" \in DOMAIN aresult.val.type_count

(***************************************************************************)
(* Vocabulary of the properties about main.                                *)
(***************************************************************************)
\* The error of the first stage that fails on the file, NoError if none.
FirstError ==
    IF ~file.readable THEN FileReadError
    ELSE IF ~file.wellformed THEN ParseError
    ELSE IF ~HasCanistersObject(file.doc) THEN MissingFieldError
    ELSE NoError

\* Positions of the lines of a kind in the report.
LinesOf(kind) == {i \in DOMAIN stdout : stdout[i].kind = kind}

\* The report without its blank lines keeps this order of kinds.
Rank(kind) ==
    CASE kind = "canister" -> 1
      [] kind = "total" -> 2
      [] kind = "header" -> 3
      [] kind = "bucket" -> 4
      [] OTHER -> 0

\* The rank of the last line that is not blank among the first i lines.
RECURSIVE LastRank(_)
LastRank(i) ==
    IF i = 0 THEN 0
    ELSE IF stdout[i].kind = "blank" THEN LastRank(i - 1)
    ELSE Rank(stdout[i].kind)

\* The tally the report shows: type of each bucket line |-> its count.
PrintedTally ==
    [t \in {stdout[i].type : i \in LinesOf("bucket")} |->
        stdout[CHOOSE i \in LinesOf("bucket") : stdout[i].type = t].count]

\* The total the report shows.
PrintedTotal == stdout[CHOOSE i \in LinesOf("total") : TRUE].total

MainFailed == pc = "exited" /\ exit_code = ExitFailure

MainSucceeded == pc = "exited" /\ exit_code = ExitSuccess

(***************************************************************************)
(* C7: the stages of main run in the order read, parse, extract; the first *)
(* one that fails ends the run with a failure status and its error, no     *)
(* later stage has run and nothing has been printed; a run in which no     *)
(* stage fails exits with status zero.                                     *)
(***************************************************************************)
C7_FirstErrorAborts ==
    /\ json.some => content.some
    /\ canisters.some => json.some
    /\ stdout # <<>> => canisters.some
    /\ content.some => file.readable
    /\ json.some => file.wellformed /\ json.val = file.doc
    /\ canisters.some => HasCanistersObject(file.doc)
    /\ pc # "exited" => exit_code = Running /\ stderr = NoError
    /\ pc = "exited" =>
          /\ exit_code \in {ExitSuccess, ExitFailure}
          /\ exit_code = ExitSuccess <=> FirstError = NoError
          /\ stderr = FirstError
    /\ MainFailed =>
          /\ stdout = <<>>
          /\ type_count = EmptyMap
          /\ FirstError = FileReadError => ~content.some
          /\ FirstError = ParseError => ~json.some
          /\ FirstError = MissingFieldError => ~canisters.some

C7_Witness ==
    /\ MainFailed
    /\ stderr = ParseError
    /\ HasCanistersObject(file.doc)
    /\ DOMAIN Entries # {}

(***************************************************************************)
(* C8: the report is, in this order, the canister lines, the total, the    *)
(* header and the bucket lines; on a successful run there is exactly one   *)
(* canister line per entry, showing the entry's label, the total is the    *)
(* number of canister lines, there is exactly one bucket line per bucket   *)
(* of the tally and the printed counts sum to the printed total.           *)
(***************************************************************************)
C8_ReportOrder ==
    /\ \A i \in 2..Len(stdout) :
          LastRank(i - 1) <= (IF stdout[i].kind = "blank" THEN LastRank(i - 1) ELSE Rank(stdout[i].kind))
    /\ Cardinality(LinesOf("total")) <= 1
    /\ Cardinality(LinesOf("header")) <= 1
    /\ LinesOf("total") # {} => Cardinality(LinesOf("canister")) = Cardinality(DOMAIN Entries)
    /\ MainSucceeded =>
          LET n == Cardinality(DOMAIN Entries)
              b == Cardinality(DOMAIN type_count)
          IN  /\ Len(stdout) = n + 4 + b
              /\ LinesOf("canister") = 1..n
              /\ \A name \in DOMAIN Entries :
                    Cardinality({i \in 1..n : stdout[i].name = name}) = 1
              /\ \A i \in 1..n :
                    /\ stdout[i].name \in DOMAIN Entries
                    /\ stdout[i].type = LabelOf(Entries[stdout[i].name])
              /\ stdout[n + 1] = BlankLine
              /\ stdout[n + 2].kind = "total" /\ stdout[n + 2].total = n
              /\ stdout[n + 3] = BlankLine
              /\ stdout[n + 4].kind = "header"
              /\ LinesOf("bucket") = (n + 5)..(n + 4 + b)
              /\ \A t \in DOMAIN type_count :
                    Cardinality({i \in LinesOf("bucket") : stdout[i].type = t}) = 1
              /\ \A i \in LinesOf("bucket") :
                    /\ stdout[i].type \in DOMAIN type_count
                    /\ stdout[i].count = type_count[stdout[i].type]
                    /\ stdout[i].count =
                          Cardinality({k \in 1..n : stdout[k].type = stdout[i].type})
              /\ SumValues(PrintedTally) = n

C8_Witness ==
    /\ MainSucceeded
    /\ Cardinality(LinesOf("canister")) = 3
    /\ Cardinality(LinesOf("bucket")) = 2

(***************************************************************************)
(* C9: the result of analyze_canisters does not depend on the order in     *)
(* which the entries are enumerated: the tally the loop body builds is the *)
(* returned one for every enumeration order of the same entries, and the   *)
(* manifest is not modified by the analysis.                               *)
(***************************************************************************)
\* The orders in which the names of S can be enumerated.
Enumerations(S) ==
    {seq \in [1..Cardinality(S) -> S] : \A i, j \in DOMAIN seq : i # j => seq[i] # seq[j]}

C9_OrderIndependent ==
    /\ lpc \in {"loop", "returned"} => ljson = Ok(file.doc)
    /\ lpc = "loop" => acanisters = Entries
    /\ AnalyzeSucceeded =>
          /\ acanisters = Entries
          /\ \A seq \in Enumerations(DOMAIN Entries) :
                /\ aresult.val.total = Len(seq)
                /\ aresult.val.type_count = TallyInOrder(Entries, seq)

C9_Witness ==
    /\ AnalyzeSucceeded
    /\ aresult.val.total = 3
    /\ LabelOf(Entries["internet-identity"]) = "motoko"
    /\ LabelOf(Entries["web3disk"]) = "unknown"
    /\ LabelOf(Entries["web3disk_service_backend"]) = "motoko"

(***************************************************************************)
(* C10: main's inline pipeline ends as read_dfx_json followed by           *)
(* analyze_canisters does: it fails in the same cases with the same error, *)
(* and on success the total and the tally it prints are the pair           *)
(* analyze_canisters returns.                                              *)
(***************************************************************************)
\* The outcome of the library pipeline once it has ended.
LibraryOutcome == IF lpc = "failed" THEN ljson ELSE aresult

C10_MainMatchesLibrary ==
    pc = "exited" =>
        /\ LibDone
        /\ MainFailed <=> ~LibraryOutcome.ok
        /\ MainFailed => stderr = LibraryOutcome.err
        /\ MainSucceeded =>
              /\ PrintedTotal = LibraryOutcome.val.total
              /\ PrintedTally = LibraryOutcome.val.type_count
              /\ type_count = LibraryOutcome.val.type_count

C10_Witness ==
    /\ MainSucceeded
    /\ LibraryOutcome.ok
    /\ LibraryOutcome.val.total = 3
    /\ Cardinality(DOMAIN PrintedTally) = 2
====
